---- MODULE Spec2Model ----
(***************************************************************************)
(* A model of the four programs of maui3831/local-search:                  *)
(*   queens.py          N-Queens GUI, backtracking on a worker thread,     *)
(*                      manual placement, step buffer with replay          *)
(*   n_queens_gui.py    N-Queens GUI, synchronous backtracking             *)
(*   queen_annealing.py N-Queens GUI, simulated annealing as a generator   *)
(*   tiles.py           8-tiles puzzle, simulated annealing                *)
(* A behaviour is a run of one of the programs; prog says which.  Each     *)
(* object is a record whose fields carry the names of the Python fields;   *)
(* each method is an operator from the object (and the arguments) to the   *)
(* object after the call.  Python indices are 0-based, sequences here are  *)
(* 1-based: steps[current_step] of the source is steps[current_step + 1].  *)
(* Rendering (pygame drawing, layout, fullscreen) is left out; the sound   *)
(* a handler plays last is kept in the field sound.                        *)
(***************************************************************************)
EXTENDS Integers, Sequences, FiniteSets, TLC

VARIABLES prog, q, nq, sa, tp, ga

vars == <<prog, q, nq, sa, tp, ga>>

Programs == {"queens", "n_queens_gui", "queen_annealing", "tiles"}

(* ---- bounds of the model ---- *)
\* board sizes 1..MaxN for the two backtracking programs
MaxN == 6
\* manual clicks of queens.py land on the rows and columns 0..MaxClick-1
\* (and on the window's last pixel row)
MaxClick == 2
\* manual placements of queens.py are cut off once the buffer holds MaxSteps
MaxSteps == 3

Abs(x) == IF x < 0 THEN -x ELSE x

Min(S) == CHOOSE x \in S : \A y \in S : x <= y

Last(s) == s[Len(s)]

Front(s) == SubSeq(s, 1, Len(s) - 1)

(***************************************************************************)
(* queen_annealing.py: count_attacks.  It is the conflict count of the     *)
(* repository and is applied below to the configurations of every queens   *)
(* program.  A queen is <<row, col>>.                                      *)
(***************************************************************************)
PairAttacks(a, b) ==
    (IF a[1] = b[1] THEN 1 ELSE 0)
    + (IF Abs(a[1] - b[1]) = Abs(a[2] - b[2]) THEN 1 ELSE 0)

RECURSIVE SumPairs(_, _, _)
SumPairs(state, i, j) ==
    IF i > Len(state) THEN 0
    ELSE IF j > Len(state) THEN SumPairs(state, i + 1, i + 2)
    ELSE PairAttacks(state[i], state[j]) + SumPairs(state, i, j + 1)

\* a count over the pairs of neighbours in the list only
count_attacks_adjacent(state) ==
    LET RECURSIVE adjacent(_)
        adjacent(i) == IF i >= Len(state) THEN 0
                       ELSE PairAttacks(state[i], state[i + 1]) + adjacent(i + 1)
    IN  adjacent(1)

count_attacks(state) == SumPairs(state, 1, 2)

(***************************************************************************)
(*                              queens.py                                  *)
(***************************************************************************)
Q_WINDOW_HEIGHT == 800

Q_CELL_SIZE(self) == Q_WINDOW_HEIGHT \div self.n

Q_BOARD_SIZE(self) == Q_CELL_SIZE(self) * self.n

\* is_safe without the diagonal test
Q_is_safe_column_only(self, row, col) ==
    \A i \in 1..Len(self.solution) : self.solution[i][2] # col

Q_is_safe(self, row, col) ==
    \A i \in 1..Len(self.solution) :
        LET q_row == self.solution[i][1]
            q_col == self.solution[i][2]
        IN  ~(q_col = col \/ Abs(q_row - row) = Abs(q_col - col))

Q_update_history(self) ==
    [self EXCEPT !.history =
        [i \in 1..Len(self.steps) |->
            <<i, self.steps[i][1], self.steps[i][2], (i - 1) = self.current_step>>]]

\* record_step that leaves out the snapshot of the configuration just reached
\* and records the one of the step before
Q_record_step_stale(self, action, pos) ==
    LET snapshot == IF self.steps = <<>> THEN <<>> ELSE Last(self.steps)[3]
        appended == Append(self.steps, <<action, pos, snapshot>>)
    IN  Q_update_history([self EXCEPT !.steps = appended,
                                      !.current_step = Len(appended) - 1])

Q_record_step(self, action, pos) ==
    LET appended == Append(self.steps, <<action, pos, self.solution>>)
    IN  Q_update_history([self EXCEPT !.steps = appended,
                                      !.current_step = Len(appended) - 1])

\* self.solution is a list object that is changed in place (append, pop).
\* aliased tells which recorded snapshot is that same object: 0 for none,
\* k for the snapshot of steps[k].  list(...) and .copy() make a new object.
Q_in_place(self, solution) ==
    [self EXCEPT !.solution = solution,
                 !.steps = IF self.aliased \in 1..Len(self.steps)
                           THEN [@ EXCEPT ![self.aliased][3] = solution]
                           ELSE @]

Q_next_step(self) ==
    IF self.current_step < Len(self.steps) - 1
    THEN LET c == self.current_step + 1
         IN  [Q_update_history([self EXCEPT !.current_step = c,
                                            !.solution = self.steps[c + 1][3],
                                            !.aliased = 0])
                EXCEPT !.sound = "move"]
    ELSE self

\* prev_step that takes the recorded snapshot itself, not a copy of it
Q_prev_step_no_copy(self) ==
    IF self.current_step > 0
    THEN LET c == self.current_step - 1
         IN  [Q_update_history([self EXCEPT !.current_step = c,
                                            !.solution = self.steps[c + 1][3],
                                            !.aliased = c + 1])
                EXCEPT !.sound = "error"]
    ELSE self

\* prev_step that moves the cursor and leaves the configuration as it is
Q_prev_step_cursor_only(self) ==
    IF self.current_step > 0
    THEN [Q_update_history([self EXCEPT !.current_step = self.current_step - 1])
            EXCEPT !.sound = "error"]
    ELSE self

Q_prev_step(self) ==
    IF self.current_step > 0
    THEN LET c == self.current_step - 1
         IN  [Q_update_history([self EXCEPT !.current_step = c,
                                            !.solution = self.steps[c + 1][3],
                                            !.aliased = 0])
                EXCEPT !.sound = "error"]
    ELSE self

Q_reset_board(self) ==
    [self EXCEPT !.solution = <<>>, !.steps = <<>>, !.current_step = 0, !.aliased = 0]

Q_handle_manual_placement(self, pos) ==
    LET col == pos[1] \div Q_CELL_SIZE(self)
        row == pos[2] \div Q_CELL_SIZE(self)
    IN  IF Q_is_safe(self, row, col)
        THEN [Q_record_step(Q_in_place(self, Append(self.solution, <<row, col>>)),
                            "Place", <<row, col>>)
                EXCEPT !.sound = "move"]
        ELSE [self EXCEPT !.sound = "error"]

Q_WorkerRunning(self) == self.worker.pc \in {"start", "placed", "removed"}

\* solve(): in auto mode the board is reset and the worker thread started
\* (it has not run yet); in manual mode the placement is validated.
\* solve_thread (worker) is overwritten: a thread it held that still runs
\* goes on running, in orphans.
Q_solve(self) ==
    IF self.mode = "auto"
    THEN [Q_reset_board(self) EXCEPT !.solving = TRUE,
                                     !.orphans = IF Q_WorkerRunning(self)
                                                 THEN Append(@, self.worker) ELSE @,
                                     !.worker = [pc |-> "start", frames |-> <<>>,
                                                 ret |-> FALSE]]
    ELSE IF Len(self.solution) = self.n
         THEN [self EXCEPT !.sound = "win"]
         ELSE [self EXCEPT !.sound = "error"]

\* The solve button's enabling test of handle_click,
\*   (mode == "auto") or (mode == "manual" and len(solution)) == n:
\* the comparison binds tighter than or, and False == n is false for n >= 1.
Q_solve_enabled(self) ==
    \/ self.mode = "auto"
    \/ (IF self.mode = "manual" THEN Len(self.solution) ELSE 0) = self.n

(* ---- the worker thread: backtrack_wrapper and backtrack ---- *)
\* The worker is at a time.sleep of backtrack ("placed": line 221,
\* "removed": line 232), not yet started ("start") or finished ("done").
\* frames holds the loop variable col of every backtrack activation whose
\* loop is running: frames[k + 1] is col of backtrack(k).
\* the loop of backtrack running over the columns downwards
Q_LastSafe(self, row, from) ==
    LET S == {c \in from..(self.n - 1) : Q_is_safe(self, row, c)}
    IN  IF S = {} THEN -1 ELSE CHOOSE x \in S : \A y \in S : y <= x

Q_FirstSafe(self, row, from) ==
    LET S == {c \in from..(self.n - 1) : Q_is_safe(self, row, c)}
    IN  IF S = {} THEN -1 ELSE Min(S)

\* backtrack(0) has returned ret to backtrack_wrapper
Q_wrapper_end(self, ret) ==
    [self EXCEPT !.sound = IF ret THEN "win" ELSE @,
                 !.solving = FALSE,
                 !.worker = [pc |-> "done", frames |-> <<>>, ret |-> ret]]

\* the loop of backtrack that records the Remove and leaves the queen on
\* the board
Q_loop_remove_keeps_queen(self, frames, row, from) ==
    LET c == Q_FirstSafe(self, row, from)
    IN  IF c # -1
        THEN [Q_record_step(Q_in_place(self, Append(self.solution, <<row, c>>)),
                            "Place", <<row, c>>)
                EXCEPT !.sound = "move",
                       !.worker = [pc |-> "placed", frames |-> Append(frames, c),
                                   ret |-> FALSE]]
        ELSE IF row = 0
             THEN Q_wrapper_end(self, FALSE)
             ELSE [Q_record_step(self, "Remove", <<row - 1, Last(frames)>>)
                     EXCEPT !.sound = "error",
                            !.worker = [pc |-> "removed", frames |-> frames,
                                        ret |-> FALSE]]

\* backtrack(row) runs its loop from column from on, up to the next sleep
\* or to the end of the thread; frames are the activations above it.
Q_loop(self, frames, row, from) ==
    LET c == Q_FirstSafe(self, row, from)
    IN  IF c # -1
        THEN [Q_record_step(Q_in_place(self, Append(self.solution, <<row, c>>)),
                            "Place", <<row, c>>)
                EXCEPT !.sound = "move",
                       !.worker = [pc |-> "placed", frames |-> Append(frames, c),
                                   ret |-> FALSE]]
        ELSE IF row = 0
             THEN Q_wrapper_end(self, FALSE)
             ELSE IF Len(self.solution) = 0
                  THEN \* solution.pop() raises IndexError: the thread dies
                       [self EXCEPT !.worker = [pc |-> "crashed", frames |-> frames,
                                                ret |-> FALSE]]
                  ELSE [Q_record_step(Q_in_place(self, Front(self.solution)),
                                      "Remove", <<row - 1, Last(frames)>>)
                          EXCEPT !.sound = "error",
                                 !.worker = [pc |-> "removed", frames |-> frames,
                                             ret |-> FALSE]]

\* backtrack(row) is entered
Q_backtrack(self, frames, row) ==
    IF row = self.n
    THEN Q_wrapper_end(self, TRUE)
    ELSE Q_loop(self, frames, row, 0)

\* one activation of the worker, from where it is to its next sleep
Q_worker_step(self) ==
    LET frames == self.worker.frames
    IN  CASE self.worker.pc = "start" ->
                Q_backtrack([self EXCEPT !.steps = <<>>, !.current_step = 0], <<>>, 0)
          [] self.worker.pc = "placed" ->
                Q_backtrack(self, frames, Len(frames))
          [] self.worker.pc = "removed" ->
                Q_loop(self, Front(frames), Len(frames) - 1, Last(frames) + 1)

\* one activation of the thread orphans[i]; a thread that has ended is gone
Q_orphan_step(self, i) ==
    LET stepped == Q_worker_step([self EXCEPT !.worker = self.orphans[i]])
        others == [k \in 1..(Len(self.orphans) - 1) |->
                      IF k < i THEN self.orphans[k] ELSE self.orphans[k + 1]]
    IN  [stepped EXCEPT !.worker = self.worker,
                        !.orphans = IF Q_WorkerRunning(stepped)
                                    THEN [self.orphans EXCEPT ![i] = stepped.worker]
                                    ELSE others]

Q_Init(n) ==
    [n |-> n, solution |-> <<>>, steps |-> <<>>, current_step |-> 0,
     mode |-> "auto", history |-> <<>>, solving |-> FALSE, sound |-> "none",
     worker |-> [pc |-> "idle", frames |-> <<>>, ret |-> FALSE],
     orphans |-> <<>>, aliased |-> 0]

\* the pixels the modelled user clicks on the board side of the window
Q_ClickPixels(self) ==
    LET k == IF self.n < MaxClick THEN self.n ELSE MaxClick
    IN  {<<c * Q_CELL_SIZE(self), y>> :
            c \in 0..(k - 1),
            y \in {r * Q_CELL_SIZE(self) : r \in 0..(k - 1)} \cup {Q_WINDOW_HEIGHT - 1}}

(* ---- handle_click, one action per branch ---- *)
Q_ClickAuto ==
    /\ prog = "queens"
    /\ q' = Q_reset_board([q EXCEPT !.mode = "auto"])
    /\ UNCHANGED <<prog, nq, sa, tp, ga>>

Q_ClickManual ==
    /\ prog = "queens"
    /\ q' = Q_reset_board([q EXCEPT !.mode = "manual"])
    /\ UNCHANGED <<prog, nq, sa, tp, ga>>

Q_ClickPrev ==
    /\ prog = "queens"
    /\ q' = Q_prev_step(q)
    /\ UNCHANGED <<prog, nq, sa, tp, ga>>

Q_ClickNext ==
    /\ prog = "queens"
    /\ q' = Q_next_step(q)
    /\ UNCHANGED <<prog, nq, sa, tp, ga>>

Q_ClickSolve ==
    /\ prog = "queens"
    /\ q' = IF Q_solve_enabled(q) THEN Q_solve(q) ELSE q
    /\ UNCHANGED <<prog, nq, sa, tp, ga>>

Q_ClickBoard ==
    /\ prog = "queens"
    /\ q.mode = "manual"
    /\ Len(q.steps) < MaxSteps
    /\ \E pos \in Q_ClickPixels(q) :
          /\ pos[1] < Q_BOARD_SIZE(q)
          /\ q' = Q_handle_manual_placement(q, pos)
    /\ UNCHANGED <<prog, nq, sa, tp, ga>>

Q_WorkerStep ==
    /\ prog = "queens"
    /\ Q_WorkerRunning(q)
    /\ q' = Q_worker_step(q)
    /\ UNCHANGED <<prog, nq, sa, tp, ga>>

Q_OrphanStep ==
    /\ prog = "queens"
    /\ \E i \in 1..Len(q.orphans) : q' = Q_orphan_step(q, i)
    /\ UNCHANGED <<prog, nq, sa, tp, ga>>

(***************************************************************************)
(*                            n_queens_gui.py                              *)
(***************************************************************************)
NQ_is_safe(self, row, col) ==
    \A i \in 1..self.top_row :
        ~(\/ self.solution[i][2] = col
          \/ Abs(self.solution[i][1] - row) = Abs(self.solution[i][2] - col))

\* solve(curr_row) and its for loop from column col on; the value is the
\* returned boolean together with the object after the call.
RECURSIVE NQ_solve(_, _), NQ_solve_loop(_, _, _)
NQ_solve(self, curr_row) ==
    IF curr_row = self.n
    THEN [ret |-> TRUE, self |-> self]
    ELSE NQ_solve_loop(self, curr_row, 0)

NQ_solve_loop(self, curr_row, col) ==
    IF col >= self.n
    THEN [ret |-> FALSE, self |-> self]
    ELSE IF NQ_is_safe(self, curr_row, col)
         THEN LET placed == [self EXCEPT !.solution = Append(@, <<curr_row, col>>),
                                         !.top_row = @ + 1]
                  below == NQ_solve(placed, curr_row + 1)
              IN  IF below.ret
                  THEN below
                  ELSE NQ_solve_loop([below.self EXCEPT !.solution = Front(@),
                                                        !.top_row = @ - 1],
                                     curr_row, col + 1)
         ELSE NQ_solve_loop(self, curr_row, col + 1)

NQ_Init(n) == [n |-> n, solution |-> <<>>, top_row |-> 0, solved |-> FALSE]

\* run(): the space key
NQ_KeySpace ==
    /\ prog = "n_queens_gui"
    /\ ~nq.solved
    /\ LET r == NQ_solve(nq, 0)
       IN  nq' = [r.self EXCEPT !.solved = r.ret]
    /\ UNCHANGED <<prog, q, sa, tp, ga>>

\* run(): the r key
NQ_KeyR ==
    /\ prog = "n_queens_gui"
    /\ nq' = [nq EXCEPT !.solution = <<>>, !.top_row = 0, !.solved = FALSE]
    /\ UNCHANGED <<prog, q, sa, tp, ga>>

(***************************************************************************)
(*                          queen_annealing.py                             *)
(* Temperatures are fixed-point numbers in units of 1/10000: 100.0 is      *)
(* 1000000 and the multiplication by cooling_rate = 0.95 rounds down.      *)
(* A Step is [state, energy, description]; a description is kept as the    *)
(* tuple of the values the source formats into its text.                   *)
(***************************************************************************)
SA_available_sizes == {4, 5, 6, 7, 8}

SA_default_n == 4

SA_initial_temperature == 1000000

SA_min_temperature == 1000

SA_max_iterations == 200000

\* float('inf')
SA_inf == 2000000000

\* a cooling that leaves the temperature as it is
SA_cool_identity(temperature) == temperature

SA_cool(temperature) == (temperature * 95) \div 100

(* ---- bounds of the model ---- *)
\* an annealing run is cut off after MaxIter iterations of its loop
MaxIter == 1

\* the board cells <<row, col>> the modelled user clicks, in any order: a
\* solution of the 4x4 board, and one more cell in column 1
SA_ClickCells == {<<2, 0>>, <<0, 1>>, <<3, 2>>, <<1, 3>>, <<1, 1>>}

SA_get_random_neighbor(self, state, queen_idx, new_row) ==
    [state EXCEPT ![queen_idx + 1] = <<new_row, queen_idx>>]

\* record_step that appends and leaves the cursor where it is
SA_record_step_no_cursor(self, state, energy, description) ==
    [self EXCEPT !.steps = Append(@, [state |-> state, energy |-> energy,
                                      description |-> description])]

SA_record_step(self, state, energy, description) ==
    LET appended == Append(self.steps, [state |-> state, energy |-> energy,
                                        description |-> description])
    IN  [self EXCEPT !.steps = appended, !.current_step = Len(appended) - 1]

\* random.random() < math.exp(-energy_diff / temperature), evaluated when
\* energy_diff >= 0: exp is 1.0 for a difference of 0 and random() < 1.0;
\* for a positive difference exp lies strictly between 0 and 1 (the
\* temperature is above min_temperature) and both outcomes are possible.
SA_accept_outcomes(energy_diff) ==
    IF energy_diff <= 0 THEN {TRUE} ELSE {TRUE, FALSE}

(* ---- the generator simulated_annealing ---- *)
\* annealing_generator is "None" or the place the generator is suspended at:
\* "new" (created, not started) or the line of its yield.
\* lines 323-334: the end of the run
SA_final(self) ==
    LET recorded ==
            IF self.best_energy = 0
            THEN [SA_record_step(self, self.best_state, self.best_energy,
                                 <<"Solution Found!">>)
                    EXCEPT !.sound = "win"]
            ELSE SA_record_step(self, self.best_state, self.best_energy,
                                <<"Best State Found", self.best_energy>>)
    IN  [recorded EXCEPT !.sound = "gameend", !.is_solving = FALSE,
                         !.annealing_generator = "yield334"]

\* the loop's record with the energy of the working configuration in the
\* place of best_energy
SA_loop_top_current_energy(self) ==
    IF /\ self.current_temperature > SA_min_temperature
       /\ self.current_iteration < SA_max_iterations
       /\ self.best_energy > 0
    THEN [SA_record_step(self, self.current_state, count_attacks(self.current_state),
                         <<"Temperature", self.current_temperature,
                           self.current_iteration>>)
            EXCEPT !.sound = IF self.current_iteration % 5 = 0 THEN "premove" ELSE @,
                   !.annealing_generator = "yield292"]
    ELSE SA_final(self)

\* lines 281-292: the loop test and the first yield of the body
SA_loop_top(self) ==
    IF /\ self.current_temperature > SA_min_temperature
       /\ self.current_iteration < SA_max_iterations
       /\ self.best_energy > 0
    THEN [SA_record_step(self, self.current_state, self.best_energy,
                         <<"Temperature", self.current_temperature,
                           self.current_iteration>>)
            EXCEPT !.sound = IF self.current_iteration % 5 = 0 THEN "premove" ELSE @,
                   !.annealing_generator = "yield292"]
    ELSE SA_final(self)

\* a cooling whose record of every 10th iteration is not followed by a yield
SA_cool_down_no_yield(self) ==
    LET cooled == [self EXCEPT !.current_temperature = SA_cool(@),
                               !.current_iteration = @ + 1]
    IN  IF cooled.current_iteration % 10 = 0
        THEN SA_loop_top(SA_record_step(cooled, cooled.current_state, cooled.best_energy,
                                        <<"Cooling Down", cooled.current_temperature>>))
        ELSE SA_loop_top(cooled)

\* lines 313-321: cooling and the record of every 10th iteration
SA_cool_down(self) ==
    LET cooled == [self EXCEPT !.current_temperature = SA_cool(@),
                               !.current_iteration = @ + 1]
    IN  IF cooled.current_iteration % 10 = 0
        THEN [SA_record_step(cooled, cooled.current_state, cooled.best_energy,
                             <<"Cooling Down", cooled.current_temperature>>)
                EXCEPT !.annealing_generator = "yield321"]
        ELSE SA_loop_top(cooled)

\* lines 268-279: the start of the run
SA_start(self) ==
    LET s1 == [self EXCEPT !.is_solving = TRUE,
                           !.steps = <<>>,
                           !.current_temperature = SA_initial_temperature,
                           !.current_iteration = 0,
                           !.best_state = self.current_state,
                           !.best_energy = count_attacks(self.current_state)]
    IN  [SA_record_step(s1, s1.best_state, s1.best_energy, <<"Initial State">>)
            EXCEPT !.annealing_generator = "yield279"]

\* an iteration that takes every accepted neighbor for the best state
SA_iterate_best_on_accept(self, queen_idx, new_row, chance) ==
    LET neighbor == SA_get_random_neighbor(self, self.current_state, queen_idx, new_row)
        neighbor_energy == count_attacks(neighbor)
        energy_diff == neighbor_energy - self.best_energy
    IN  IF energy_diff < 0 \/ chance
        THEN [SA_record_step([self EXCEPT !.current_state = neighbor,
                                          !.best_state = neighbor,
                                          !.best_energy = neighbor_energy],
                             neighbor, neighbor_energy,
                             <<"New Best State Found!", neighbor_energy>>)
                EXCEPT !.sound = "premove",
                       !.annealing_generator = "yield311"]
        ELSE SA_cool_down(self)

\* lines 294-311: one neighbor is drawn and accepted or not
SA_iterate(self, queen_idx, new_row, chance) ==
    LET neighbor == SA_get_random_neighbor(self, self.current_state, queen_idx, new_row)
        neighbor_energy == count_attacks(neighbor)
        energy_diff == neighbor_energy - self.best_energy
    IN  IF energy_diff < 0 \/ chance
        THEN LET moved == [self EXCEPT !.current_state = neighbor]
             IN  IF neighbor_energy < self.best_energy
                 THEN [SA_record_step([moved EXCEPT !.best_state = neighbor,
                                                    !.best_energy = neighbor_energy],
                                      neighbor, neighbor_energy,
                                      <<"New Best State Found!", neighbor_energy>>)
                         EXCEPT !.sound = "premove",
                                !.annealing_generator = "yield311"]
                 ELSE SA_cool_down(moved)
        ELSE SA_cool_down(self)

SA_change_board_size(self, new_size) ==
    IF new_size = self.n \/ self.is_solving
    THEN self
    ELSE [self EXCEPT !.n = new_size, !.current_state = <<>>, !.steps = <<>>,
                      !.current_step = 0, !.sound = "move"]

\* handle_click without the test of is_solving at its head
SA_handle_click_while_solving(self, target) ==
    IF target[1] = "size" THEN SA_change_board_size(self, target[2])
    ELSE IF target[1] = "solve" /\ Len(self.current_state) = self.n
         THEN [self EXCEPT !.annealing_generator = "new", !.is_solving = TRUE,
                           !.sound = "premove"]
    ELSE IF target[1] = "reset"
         THEN [self EXCEPT !.current_state = <<>>, !.steps = <<>>, !.current_step = 0]
    ELSE IF target[1] = "prev" /\ self.current_step > 0
         THEN LET c == self.current_step - 1
              IN  [self EXCEPT !.current_step = c,
                               !.current_state = self.steps[c + 1].state,
                               !.sound = "premove"]
    ELSE IF target[1] = "next" /\ self.current_step < Len(self.steps) - 1
         THEN LET c == self.current_step + 1
              IN  [self EXCEPT !.sound = IF self.current_step = Len(self.steps) - 2
                                         THEN "gameend" ELSE "premove",
                               !.current_step = c,
                               !.current_state = self.steps[c + 1].state]
    ELSE IF target[1] = "board"
         THEN LET row == target[2]
                  col == target[3]
              IN  IF /\ 0 <= row /\ row < self.n /\ 0 <= col /\ col < self.n
                     /\ ~(\E i \in 1..Len(self.current_state) :
                              self.current_state[i][2] = col)
                     /\ Len(self.current_state) < self.n
                  THEN [self EXCEPT !.current_state = Append(@, <<row, col>>),
                                    !.sound = "move"]
                  ELSE self
    ELSE self

\* handle_click: what is the click on.  The rectangles of the buttons and
\* the board do not overlap; a click on the board is given by its cell.
SA_handle_click(self, target) ==
    IF self.is_solving THEN self
    ELSE IF target[1] = "size" THEN SA_change_board_size(self, target[2])
    ELSE IF target[1] = "solve" /\ Len(self.current_state) = self.n
         THEN [self EXCEPT !.annealing_generator = "new", !.is_solving = TRUE,
                           !.sound = "premove"]
    ELSE IF target[1] = "reset"
         THEN [self EXCEPT !.current_state = <<>>, !.steps = <<>>, !.current_step = 0]
    ELSE IF target[1] = "prev" /\ self.current_step > 0
         THEN LET c == self.current_step - 1
              IN  [self EXCEPT !.current_step = c,
                               !.current_state = self.steps[c + 1].state,
                               !.sound = "premove"]
    ELSE IF target[1] = "next" /\ self.current_step < Len(self.steps) - 1
         THEN LET c == self.current_step + 1
              IN  [self EXCEPT !.sound = IF self.current_step = Len(self.steps) - 2
                                         THEN "gameend" ELSE "premove",
                               !.current_step = c,
                               !.current_state = self.steps[c + 1].state]
    ELSE IF target[1] = "board"
         THEN LET row == target[2]
                  col == target[3]
              IN  IF /\ 0 <= row /\ row < self.n /\ 0 <= col /\ col < self.n
                     /\ ~(\E i \in 1..Len(self.current_state) :
                              self.current_state[i][2] = col)
                     /\ Len(self.current_state) < self.n
                  THEN [self EXCEPT !.current_state = Append(@, <<row, col>>),
                                    !.sound = "move"]
                  ELSE self
    ELSE self

SA_Init ==
    [n |-> SA_default_n, current_state |-> <<>>, steps |-> <<>>, current_step |-> 0,
     is_solving |-> FALSE, annealing_generator |-> "None",
     current_temperature |-> SA_initial_temperature, current_iteration |-> 0,
     best_state |-> "None", best_energy |-> SA_inf, sound |-> "none"]

SA_ClickSize ==
    /\ prog = "queen_annealing"
    /\ \E size \in SA_available_sizes : sa' = SA_handle_click(sa, <<"size", size>>)
    /\ UNCHANGED <<prog, q, nq, tp, ga>>

SA_ClickSolve ==
    /\ prog = "queen_annealing"
    /\ sa' = SA_handle_click(sa, <<"solve">>)
    /\ UNCHANGED <<prog, q, nq, tp, ga>>

SA_ClickReset ==
    /\ prog = "queen_annealing"
    /\ sa' = SA_handle_click(sa, <<"reset">>)
    /\ UNCHANGED <<prog, q, nq, tp, ga>>

SA_ClickPrev ==
    /\ prog = "queen_annealing"
    /\ sa' = SA_handle_click(sa, <<"prev">>)
    /\ UNCHANGED <<prog, q, nq, tp, ga>>

SA_ClickNext ==
    /\ prog = "queen_annealing"
    /\ sa' = SA_handle_click(sa, <<"next">>)
    /\ UNCHANGED <<prog, q, nq, tp, ga>>

SA_ClickBoard ==
    /\ prog = "queen_annealing"
    /\ \E cell \in SA_ClickCells :
          sa' = SA_handle_click(sa, <<"board", cell[1], cell[2]>>)
    /\ UNCHANGED <<prog, q, nq, tp, ga>>

\* run(), lines 612-618: the generator is resumed once per frame.  One
\* action per place it is resumed from.
SA_Running == prog = "queen_annealing" /\ sa.is_solving /\ sa.annealing_generator # "None"

SA_ResumeNew ==
    /\ SA_Running
    /\ sa.annealing_generator = "new"
    /\ sa' = SA_start(sa)
    /\ UNCHANGED <<prog, q, nq, tp, ga>>

SA_ResumeLoop ==
    /\ SA_Running
    /\ sa.annealing_generator \in {"yield279", "yield321"}
    /\ sa' = SA_loop_top(sa)
    /\ UNCHANGED <<prog, q, nq, tp, ga>>

SA_ResumeIterate ==
    /\ SA_Running
    /\ sa.annealing_generator = "yield292"
    /\ sa.current_iteration < MaxIter
    /\ \E queen_idx \in 0..(sa.n - 1), new_row \in 0..(sa.n - 1) :
          LET neighbor == SA_get_random_neighbor(sa, sa.current_state, queen_idx, new_row)
          IN  \E chance \in SA_accept_outcomes(count_attacks(neighbor) - sa.best_energy) :
                 sa' = SA_iterate(sa, queen_idx, new_row, chance)
    /\ UNCHANGED <<prog, q, nq, tp, ga>>

SA_ResumeCool ==
    /\ SA_Running
    /\ sa.annealing_generator = "yield311"
    /\ sa' = SA_cool_down(sa)
    /\ UNCHANGED <<prog, q, nq, tp, ga>>

(***************************************************************************)
(*                               tiles.py                                  *)
(* A grid is a sequence of three rows of three tiles; the blank "#" is     *)
(* the tile 0.  A puzzle object is [state, blank_pos]; goal_state is the   *)
(* same for every puzzle.  Positions <<i, j>> are 0-based as in the        *)
(* source.  Temperatures are fixed-point numbers in units of 1/10000       *)
(* and the multiplication by cooling_rate = 0.995 rounds down.             *)
(***************************************************************************)
TP_default_state == <<<<5, 1, 3>>, <<4, 2, 8>>, <<6, 7, 0>>>>

TP_goal_state == <<<<1, 2, 3>>, <<4, 5, 6>>, <<7, 8, 0>>>>

\* main(): the parameters of the first call of simulated_annealing
TP_initial_temperature == 10000

TP_min_temperature == 100

TP_max_iterations == 50000

\* temperature *= cooling_rate, the rate in thousandths
TP_cool(temperature, cooling_rate) == (temperature * cooling_rate) \div 1000

\* the keyword arguments of simulated_annealing: those of the two calls of
\* main() (lines 192-195 and 225-227), and two calls with a small budget
\* (a temperature two coolings above min_temperature, and two iterations)
TP_call_parameters ==
    {[initial_temperature |-> TP_initial_temperature, cooling_rate |-> 995,
      min_temperature |-> TP_min_temperature, max_iterations |-> TP_max_iterations],
     [initial_temperature |-> 50000, cooling_rate |-> 999,
      min_temperature |-> TP_min_temperature, max_iterations |-> 100000],
     [initial_temperature |-> 102, cooling_rate |-> 995,
      min_temperature |-> TP_min_temperature, max_iterations |-> TP_max_iterations],
     [initial_temperature |-> TP_initial_temperature, cooling_rate |-> 995,
      min_temperature |-> TP_min_temperature, max_iterations |-> 2]}

(* ---- bounds of the model ---- *)
\* a tiles annealing run is cut off after MaxTileIter iterations
MaxTileIter == 3

\* the initial_state arguments of EightTilesPuzzle: none (the default
\* state, which is also the one main() passes), and two states near the goal
TP_initial_states ==
    {<<>>,
     <<<<1, 2, 3>>, <<4, 5, 6>>, <<7, 0, 8>>>>,
     <<<<1, 2, 3>>, <<4, 0, 6>>, <<7, 5, 8>>>>}

TP_cell(state, i, j) == state[i + 1][j + 1]

TP_find_blank(state) ==
    LET found == {p \in (0..2) \X (0..2) : TP_cell(state, p[1], p[2]) = 0}
    IN  IF found = {} THEN "None"
        ELSE CHOOSE p \in found :
                \A o \in found : p[1] < o[1] \/ (p[1] = o[1] /\ p[2] <= o[2])

\* EightTilesPuzzle.__init__
TP_new_puzzle(initial_state) ==
    LET state == IF initial_state # <<>> THEN initial_state ELSE TP_default_state
    IN  [state |-> state, blank_pos |-> TP_find_blank(state)]

\* the moves in the order the source appends them: up, down, left, right
TP_get_possible_moves(self) ==
    LET i == self.blank_pos[1]
        j == self.blank_pos[2]
    IN  (IF i > 0 THEN <<(<<-1, 0>>)>> ELSE <<>>)
        \o (IF i < 2 THEN <<(<<1, 0>>)>> ELSE <<>>)
        \o (IF j > 0 THEN <<(<<0, -1>>)>> ELSE <<>>)
        \o (IF j < 2 THEN <<(<<0, 1>>)>> ELSE <<>>)

\* _apply_move that swaps the tiles and returns the blank position it had
TP_apply_move_stale_blank(self, move) ==
    LET i == self.blank_pos[1]
        j == self.blank_pos[2]
        ti == i + move[1]
        tj == j + move[2]
        new_state ==
            [r \in 1..3 |-> [c \in 1..3 |->
                IF r = i + 1 /\ c = j + 1 THEN TP_cell(self.state, ti, tj)
                ELSE IF r = ti + 1 /\ c = tj + 1 THEN TP_cell(self.state, i, j)
                ELSE self.state[r][c]]]
    IN  <<new_state, <<i, j>>>>

\* the value is <<new_state, new_blank_pos>>
TP_apply_move(self, move) ==
    LET i == self.blank_pos[1]
        j == self.blank_pos[2]
        ti == i + move[1]
        tj == j + move[2]
        new_state ==
            [r \in 1..3 |-> [c \in 1..3 |->
                IF r = i + 1 /\ c = j + 1 THEN TP_cell(self.state, ti, tj)
                ELSE IF r = ti + 1 /\ c = tj + 1 THEN TP_cell(self.state, i, j)
                ELSE self.state[r][c]]]
    IN  <<new_state, <<ti, tj>>>>

\* get_random_neighbor, with the index random.choice draws
TP_get_random_neighbor(self, choice) ==
    LET moved == TP_apply_move(self, TP_get_possible_moves(self)[choice])
    IN  [state |-> moved[1], blank_pos |-> moved[2]]

\* calculate_heuristic: the four nested loops; the break leaves the loop
\* over gj only, so every goal row gi adds the distance to its first match.
RECURSIVE TP_heuristic_from(_, _, _)
TP_heuristic_from(state, cell, gi) ==
    IF cell > 8 THEN 0
    ELSE IF gi > 2 THEN TP_heuristic_from(state, cell + 1, 0)
    ELSE LET i == cell \div 3
             j == cell % 3
             value == TP_cell(state, i, j)
             hits == {gj \in 0..2 : TP_cell(TP_goal_state, gi, gj) = value}
         IN  (IF value # 0 /\ hits # {}
              THEN Abs(i - gi) + Abs(j - Min(hits))
              ELSE 0)
             + TP_heuristic_from(state, cell, gi + 1)

\* a heuristic that adds the row distances only
TP_calculate_heuristic_rows(self) ==
    LET at(state, v) == CHOOSE p \in (0..2) \X (0..2) : TP_cell(state, p[1], p[2]) = v
        RECURSIVE rows(_)
        rows(v) == IF v > 8 THEN 0
                   ELSE Abs(at(self.state, v)[1] - at(TP_goal_state, v)[1]) + rows(v + 1)
    IN  rows(1)

TP_calculate_heuristic(self) == TP_heuristic_from(self.state, 0, 0)

TP_is_goal(self) == self.state = TP_goal_state

\* simulated_annealing, lines 122-131
TP_sa_begin(puzzle, parameters) ==
    [pc |-> "loop",
     puzzle |-> puzzle,
     cooling_rate |-> parameters.cooling_rate,
     min_temperature |-> parameters.min_temperature,
     max_iterations |-> parameters.max_iterations,
     current_puzzle |-> puzzle,
     best_puzzle |-> puzzle,
     current_energy |-> TP_calculate_heuristic(puzzle),
     best_energy |-> TP_calculate_heuristic(puzzle),
     temperature |-> parameters.initial_temperature,
     iteration |-> 0,
     moves_history |-> <<puzzle.state>>]

\* the while condition, lines 133-137
TP_loop_condition(run) ==
    /\ run.temperature > run.min_temperature
    /\ run.iteration < run.max_iterations
    /\ ~TP_is_goal(run.current_puzzle)

\* a loop body that takes every accepted neighbor for the best puzzle
TP_sa_iterate_best_is_current(run, choice, chance) ==
    LET neighbor_puzzle == TP_get_random_neighbor(run.current_puzzle, choice)
        neighbor_energy == TP_calculate_heuristic(neighbor_puzzle)
        energy_diff == neighbor_energy - run.current_energy
        accepted ==
            IF energy_diff < 0 \/ chance
            THEN [run EXCEPT !.current_puzzle = neighbor_puzzle,
                             !.current_energy = neighbor_energy,
                             !.moves_history = Append(@, neighbor_puzzle.state),
                             !.best_puzzle = neighbor_puzzle,
                             !.best_energy = neighbor_energy]
            ELSE run
    IN  [accepted EXCEPT !.temperature = TP_cool(@, run.cooling_rate),
                         !.iteration = @ + 1]

\* a loop body that appends the working grid to moves_history on every pass
TP_sa_iterate_history_always(run, choice, chance) ==
    LET neighbor_puzzle == TP_get_random_neighbor(run.current_puzzle, choice)
        neighbor_energy == TP_calculate_heuristic(neighbor_puzzle)
        energy_diff == neighbor_energy - run.current_energy
        accepted ==
            IF energy_diff < 0 \/ chance
            THEN LET moved == [run EXCEPT
                                  !.current_puzzle = neighbor_puzzle,
                                  !.current_energy = neighbor_energy]
                 IN  IF neighbor_energy < run.best_energy
                     THEN [moved EXCEPT !.best_puzzle = neighbor_puzzle,
                                        !.best_energy = neighbor_energy]
                     ELSE moved
            ELSE run
    IN  [accepted EXCEPT !.moves_history = Append(@, accepted.current_puzzle.state),
                         !.temperature = TP_cool(@, run.cooling_rate),
                         !.iteration = @ + 1]

\* one pass of the loop body, lines 138-158
TP_sa_iterate(run, choice, chance) ==
    LET neighbor_puzzle == TP_get_random_neighbor(run.current_puzzle, choice)
        neighbor_energy == TP_calculate_heuristic(neighbor_puzzle)
        energy_diff == neighbor_energy - run.current_energy
        accepted ==
            IF energy_diff < 0 \/ chance
            THEN LET moved == [run EXCEPT
                                  !.current_puzzle = neighbor_puzzle,
                                  !.current_energy = neighbor_energy,
                                  !.moves_history = Append(@, neighbor_puzzle.state)]
                 IN  IF neighbor_energy < run.best_energy
                     THEN [moved EXCEPT !.best_puzzle = neighbor_puzzle,
                                        !.best_energy = neighbor_energy]
                     ELSE moved
            ELSE run
    IN  [accepted EXCEPT !.temperature = TP_cool(@, run.cooling_rate),
                         !.iteration = @ + 1]

\* the program before main() calls simulated_annealing on its puzzle
TP_Init(initial_state) == [pc |-> "main", puzzle |-> TP_new_puzzle(initial_state)]

TP_Call ==
    /\ prog = "tiles"
    /\ tp.pc = "main"
    /\ \E parameters \in TP_call_parameters : tp' = TP_sa_begin(tp.puzzle, parameters)
    /\ UNCHANGED <<prog, q, nq, sa, ga>>

TP_Iterate ==
    /\ prog = "tiles"
    /\ tp.pc = "loop"
    /\ TP_loop_condition(tp)
    /\ tp.iteration < MaxTileIter
    /\ \E choice \in 1..Len(TP_get_possible_moves(tp.current_puzzle)) :
          LET neighbor == TP_get_random_neighbor(tp.current_puzzle, choice)
          IN  \E chance \in SA_accept_outcomes(TP_calculate_heuristic(neighbor)
                                               - tp.current_energy) :
                 tp' = TP_sa_iterate(tp, choice, chance)
    /\ UNCHANGED <<prog, q, nq, sa, ga>>

\* line 160: return best_puzzle, best_energy, iteration, moves_history
TP_Return ==
    /\ prog = "tiles"
    /\ tp.pc = "loop"
    /\ ~TP_loop_condition(tp)
    /\ tp' = [tp EXCEPT !.pc = "returned"]
    /\ UNCHANGED <<prog, q, nq, sa, ga>>

(***************************************************************************)
(*                          the specification                              *)
(***************************************************************************)
\* the object of a program that is not the one running
Absent == <<>>

Init ==
    \/ /\ prog = "queens"
       /\ \E n \in 1..MaxN : q = Q_Init(n)
       /\ nq = Absent /\ sa = Absent /\ tp = Absent /\ ga = Absent
    \/ /\ prog = "n_queens_gui"
       /\ \E n \in 1..MaxN : nq = NQ_Init(n)
       /\ q = Absent /\ sa = Absent /\ tp = Absent /\ ga = Absent
    \/ /\ prog = "queen_annealing"
       /\ sa = SA_Init
       /\ q = Absent /\ nq = Absent /\ tp = Absent /\ ga = Absent
    \/ /\ prog = "tiles"
       /\ \E initial_state \in TP_initial_states : tp = TP_Init(initial_state)
       /\ q = Absent /\ nq = Absent /\ sa = Absent /\ ga = Absent

Q_GuiQuiet == prog = "queens" /\ ~Q_WorkerRunning(q)

\* Spec is the schedule in which the user leaves the window alone while the
\* worker thread of queens.py runs: a click is handled when no worker runs.
Next ==
    \/ Q_GuiQuiet /\ Q_ClickAuto
    \/ Q_GuiQuiet /\ Q_ClickManual
    \/ Q_GuiQuiet /\ Q_ClickPrev
    \/ Q_GuiQuiet /\ Q_ClickNext
    \/ Q_GuiQuiet /\ Q_ClickSolve
    \/ Q_GuiQuiet /\ Q_ClickBoard
    \/ Q_WorkerStep
    \/ NQ_KeySpace
    \/ NQ_KeyR
    \/ SA_ClickSize
    \/ SA_ClickSolve
    \/ SA_ClickReset
    \/ SA_ClickPrev
    \/ SA_ClickNext
    \/ SA_ClickBoard
    \/ SA_ResumeNew
    \/ SA_ResumeLoop
    \/ SA_ResumeIterate
    \/ SA_ResumeCool
    \/ TP_Call
    \/ TP_Iterate
    \/ TP_Return

Spec == Init /\ [][Next]_vars

(***************************************************************************)
(* queens.py with its threads interleaved: the main thread handles a click *)
(* at any time, between two activations of the worker threads.             *)
(***************************************************************************)
\* board sizes of the interleaved runs
MaxThreadN == 3
\* threads alive at the same time
MaxThreads == 2
\* the worker threads and the manual placements are cut off once the buffer
\* holds MaxThreadSteps
MaxThreadSteps == 2

InitThreads ==
    /\ prog = "queens"
    /\ \E n \in 1..MaxThreadN : q = Q_Init(n)
    /\ nq = Absent /\ sa = Absent /\ tp = Absent /\ ga = Absent

Q_ThreadsAlive == (IF Q_WorkerRunning(q) THEN 1 ELSE 0) + Len(q.orphans)

Q_MainThread ==
    \/ Q_ClickAuto
    \/ Q_ClickManual
    \/ Q_ClickPrev
    \/ Q_ClickNext
    \/ Q_ClickSolve /\ (q.mode = "auto" => Q_ThreadsAlive < MaxThreads)
    \/ Q_ClickBoard /\ Len(q.steps) < MaxThreadSteps

NextThreads ==
    \/ Q_MainThread
    \/ Q_WorkerStep /\ Len(q.steps) < MaxThreadSteps
    \/ Q_OrphanStep /\ Len(q.steps) < MaxThreadSteps

SpecThreads == InitThreads /\ [][NextThreads]_vars

(***************************************************************************)
(*                              the claims                                 *)
(***************************************************************************)
\* the activation of the worker of queens.py in which backtrack(0) returns
Q_WorkerEnds == Q_WorkerStep /\ q'.worker.pc = "done"

\* no two queens of the configuration share a row, a column or a diagonal
NonAttacking(state) ==
    \A i, j \in 1..Len(state) :
        i < j => /\ state[i][1] # state[j][1]
                 /\ state[i][2] # state[j][2]
                 /\ Abs(state[i][1] - state[j][1]) # Abs(state[i][2] - state[j][2])

OnBoard(state, n) ==
    \A i \in 1..Len(state) : state[i][1] \in 0..(n - 1) /\ state[i][2] \in 0..(n - 1)

\* what C1 says of a solve on a board of size n that returned ret and left
\* the configuration solution
C1_Outcome(n, ret, solution) ==
    IF n \in {2, 3}
    THEN ret = FALSE
    ELSE /\ ret = TRUE
         /\ Len(solution) = n
         /\ count_attacks(solution) = 0
         /\ NonAttacking(solution)
         /\ OnBoard(solution, n)

\* C1: for every board size n >= 1 the backtracking solver, started on an
\* empty board, returns success with n queens and conflict count 0, except
\* for n = 2 and n = 3, where it returns failure.  Stated of the worker of
\* queens.py (the step in which backtrack(0) returns) and of solve() of
\* n_queens_gui.py (the space key).
C1_BacktrackingSolves ==
    [][/\ Q_WorkerEnds => C1_Outcome(q.n, q'.worker.ret, q'.solution)
       /\ NQ_KeySpace => C1_Outcome(nq.n, nq'.solved, nq'.solution)]_vars

C1_Witness ==
    /\ prog = "queens"
    /\ q.worker.pc = "done" /\ q.worker.ret
    /\ q.n >= 4
    /\ Len(q.solution) = q.n
    /\ Len(q.steps) > q.n
    /\ q.steps # <<>> /\ q.current_step = Len(q.steps) - 1

\* the placements of k queens on the first k lines of an n x n board, one
\* queen a line, as the sequences of their positions in the line, that
\* have no conflict
RECURSIVE Placements(_, _)
Placements(n, k) ==
    IF k = 0 THEN {<<>>}
    ELSE {s \in {Append(t, c) : t \in Placements(n, k - 1), c \in 0..(n - 1)} :
            \A i \in 1..(k - 1) : s[i] # s[k] /\ Abs(s[i] - s[k]) # k - i}

\* all zero-conflict placements of n queens
Solutions == [n \in 1..MaxN |-> Placements(n, n)]

LexLess(a, b) ==
    \E k \in 1..Len(a) : a[k] < b[k] /\ \A i \in 1..(k - 1) : a[i] = b[i]

\* The source calls the recursion level row and the position tried at it
\* col; the claim calls them column and row.
C2_Outcome(n, ret, solution) ==
    Solutions[n] # {} =>
        LET chosen == [i \in 1..Len(solution) |-> solution[i][2]]
        IN  /\ ret = TRUE
            /\ \A i \in 1..Len(solution) : solution[i][1] = i - 1
            /\ chosen \in Solutions[n]
            /\ \A s \in Solutions[n] : ~LexLess(s, chosen)

C3_Stated == {<<1, 0>>, <<3, 1>>, <<0, 2>>, <<2, 3>>}

Cells(state) == {state[i] : i \in 1..Len(state)}

Transposed(cells) == {<<c[2], c[1]>> : c \in cells}

\* C3: for n = 4, backtracking from an empty board ends in a zero-conflict
\* arrangement, the transpose (a symmetric equivalent) of rows [1,3,0,2]
\* for columns [0,1,2,3]: the queens (0,1), (1,3), (2,0), (3,2).  It is
\* reached after 12 Steps, each a Place or a Remove, and the snapshot of
\* the last recorded Step is that arrangement, with conflict count 0.
C3_FourQueens ==
    [][Q_WorkerEnds /\ q.n = 4 =>
        /\ q'.worker.ret
        /\ q'.solution = <<<<0, 1>>, <<1, 3>>, <<2, 0>>, <<3, 2>>>>
        /\ Cells(q'.solution) = Transposed(C3_Stated)
        /\ Len(q'.steps) = 12
        /\ \A i \in 1..Len(q'.steps) : q'.steps[i][1] \in {"Place", "Remove"}
        /\ Last(q'.steps)[1] = "Place"
        /\ Last(q'.steps)[3] = q'.solution
        /\ count_attacks(Last(q'.steps)[3]) = 0
        /\ NonAttacking(Last(q'.steps)[3])]_vars

C3_Witness ==
    /\ prog = "queens"
    /\ q.n = 4
    /\ q.worker.pc = "done" /\ q.worker.ret
    /\ Len(q.steps) = 12 /\ q.current_step = 11
    /\ \E i \in 1..Len(q.steps) : q.steps[i][1] = "Remove"
    /\ q.solution = Last(q.steps)[3]

\* C4, as stated: is_safe(row, col) is true if and only if no placed queen
\* occupies column col, shares row row, or lies on a diagonal with
\* (row, col).  The source tests the column and the diagonals only.
C4_IsSafeIff ==
    prog = "queens" =>
        \A row, col \in 0..(q.n - 1) :
            Q_is_safe(q, row, col) <=>
                ~\E i \in 1..Len(q.solution) :
                    \/ q.solution[i][2] = col
                    \/ q.solution[i][1] = row
                    \/ Abs(q.solution[i][1] - row) = Abs(q.solution[i][2] - col)
SA_StepsOfRun == IF prog = "queen_annealing" THEN sa.steps ELSE <<>>

\* C5: across the Steps recorded during one queens annealing run, in
\* recording order, the recorded metric never increases from one Step to
\* the next.  (steps holds the Steps of one run: a run empties it first.)
C5_MetricNonIncreasing ==
    \A i \in 1..(Len(SA_StepsOfRun) - 1) :
        SA_StepsOfRun[i + 1].energy <= SA_StepsOfRun[i].energy

C5_Witness ==
    /\ prog = "queen_annealing"
    /\ Len(sa.steps) >= 3
    /\ \E i \in 1..(Len(sa.steps) - 1) :
          /\ count_attacks(sa.steps[i + 1].state) > count_attacks(sa.steps[i].state)
          /\ sa.steps[i + 1].energy = sa.steps[i].energy

\* the annealing run has ended with "Solution Found!" and its Steps are
\* still in the buffer
SA_SolutionFound ==
    /\ prog = "queen_annealing"
    /\ sa.steps # <<>>
    /\ Last(sa.steps).description = <<"Solution Found!">>

\* C6, as stated: whenever a queens annealing run started from a full
\* configuration the user built by clicks ends with best energy 0, the best
\* configuration has n queens of which no two share a row, a column or a
\* diagonal.
C6_ZeroMeansGoal ==
    SA_SolutionFound =>
        /\ sa.best_energy = 0
        /\ Last(sa.steps).state = sa.best_state
        /\ Len(sa.best_state) = sa.n
        /\ NonAttacking(sa.best_state)

DistinctColumns(state) ==
    \A i, j \in 1..Len(state) : i < j => state[i][2] # state[j][2]

RECURSIVE Q_next_times(_, _), Q_prev_times(_, _), SA_click_times(_, _, _)
Q_next_times(self, k) == IF k = 0 THEN self ELSE Q_next_times(Q_next_step(self), k - 1)

Q_prev_times(self, k) == IF k = 0 THEN self ELSE Q_prev_times(Q_prev_step(self), k - 1)

SA_click_times(self, target, k) ==
    IF k = 0 THEN self ELSE SA_click_times(SA_handle_click(self, target), target, k - 1)

\* C8: from any cursor position with at least k Steps ahead, next k times
\* and then previous k times returns the cursor to its index, and the
\* current Step and the displayed configuration are the same as before.
\* Stated of next_step / prev_step of queens.py and of the Next and Prev
\* buttons of queen_annealing.py while no solve is in progress: next k
\* times moves the cursor k Steps ahead and shows that Step's snapshot.
C8_ReplayRoundTrip ==
    /\ prog = "queens" =>
          \A k \in 1..(Len(q.steps) - 1 - q.current_step) :
              LET ahead == Q_next_times(q, k)
                  back == Q_prev_times(ahead, k)
              IN  /\ ahead.current_step = q.current_step + k
                  /\ ahead.solution = q.steps[q.current_step + k + 1][3]
                  /\ back.current_step = q.current_step
                  /\ back.steps = q.steps
                  /\ back.solution = q.solution
                  /\ back.solution = q.steps[q.current_step + 1][3]
    /\ prog = "queen_annealing" /\ ~sa.is_solving =>
          \A k \in 1..(Len(sa.steps) - 1 - sa.current_step) :
              LET ahead == SA_click_times(sa, <<"next">>, k)
                  back == SA_click_times(ahead, <<"prev">>, k)
              IN  /\ ahead.current_step = sa.current_step + k
                  /\ ahead.current_state = sa.steps[sa.current_step + k + 1].state
                  /\ back.current_step = sa.current_step
                  /\ back.steps = sa.steps
                  /\ back.current_state = sa.current_state
                  /\ back.current_state = sa.steps[sa.current_step + 1].state

C8_Witness ==
    /\ prog = "queen_annealing"
    /\ ~sa.is_solving
    /\ sa.current_step + 2 <= Len(sa.steps) - 1
    /\ sa.steps[sa.current_step + 1].state # sa.steps[sa.current_step + 3].state

\* the step buffer and the cursor of the program that runs
Buffer == IF prog = "queens" THEN q.steps
          ELSE IF prog = "queen_annealing" THEN sa.steps ELSE <<>>

Cursor == IF prog = "queens" THEN q.current_step
          ELSE IF prog = "queen_annealing" THEN sa.current_step ELSE 0

C9_CursorInRange == Buffer # <<>> => 0 <= Cursor /\ Cursor <= Len(Buffer) - 1

C9_NoOpAtTheEnds ==
    /\ prog = "queens" /\ q.current_step = 0 => Q_prev_step(q) = q
    /\ prog = "queens" /\ q.current_step = Len(q.steps) - 1 => Q_next_step(q) = q
    /\ prog = "queen_annealing" /\ sa.current_step = 0 =>
          SA_handle_click(sa, <<"prev">>) = sa
    /\ prog = "queen_annealing" /\ sa.current_step = Len(sa.steps) - 1 =>
          SA_handle_click(sa, <<"next">>) = sa

\* a step that changes the buffer and leaves it non-empty has recorded a
\* Step: the buffer is only ever emptied or appended to
C9_RecordLeavesTail ==
    Buffer' # Buffer /\ Buffer' # <<>> =>
        /\ Cursor' = Len(Buffer') - 1
        /\ \/ Front(Buffer') = Buffer
           \/ Len(Buffer') = 1

\* C9: record always leaves the cursor at the new tail; previous at index 0
\* and next at the tail change nothing; so with a non-empty buffer
\* 0 <= cursor <= len(steps) - 1.
C9_CursorDiscipline ==
    /\ [](C9_CursorInRange /\ C9_NoOpAtTheEnds)
    /\ [][C9_RecordLeavesTail]_vars

C9_Witness ==
    /\ prog = "queens"
    /\ q.mode = "manual"
    /\ Len(q.steps) >= 2
    /\ q.current_step = 0
    /\ q.sound = "error"

\* the sum over the tiles 1..8 of |row - goal row| + |col - goal col|
Manhattan(state, goal) ==
    LET at(grid, v) == CHOOSE p \in (0..2) \X (0..2) : TP_cell(grid, p[1], p[2]) = v
        RECURSIVE sum(_)
        sum(v) == IF v > 8 THEN 0
                  ELSE Abs(at(state, v)[1] - at(goal, v)[1])
                       + Abs(at(state, v)[2] - at(goal, v)[2]) + sum(v + 1)
    IN  sum(1)

\* an annealing run seeded on the start state [[5,1,3],[4,2,8],[6,7,#]]
\* has been set up and has not iterated yet
TP_SeededOnDefault ==
    /\ prog = "tiles"
    /\ tp.pc = "loop"
    /\ tp.iteration = 0
    /\ tp.puzzle.state = <<<<5, 1, 3>>, <<4, 2, 8>>, <<6, 7, 0>>>>

\* C10, as stated: the start state has Manhattan-distance heuristic 12 and
\* this is the initial best energy of an annealing run seeded on it.
C10_HeuristicTwelve ==
    TP_SeededOnDefault =>
        /\ TP_calculate_heuristic(tp.puzzle) = 12
        /\ tp.best_energy = 12

\* C10, amended: the start state [[5,1,3],[4,2,8],[6,7,#]] evaluated
\* against the goal [[1,2,3],[4,5,6],[7,8,#]] has Manhattan-distance
\* heuristic 10 (the sum over the eight tiles of |row - goal row| +
\* |col - goal col|), and this is the initial best energy (and the initial
\* current energy) of an annealing run seeded on it.
C10_HeuristicTen ==
    TP_SeededOnDefault =>
        /\ tp.puzzle.state = TP_default_state
        /\ TP_goal_state = <<<<1, 2, 3>>, <<4, 5, 6>>, <<7, 8, 0>>>>
        /\ TP_calculate_heuristic(tp.puzzle) = 10
        /\ TP_calculate_heuristic(tp.puzzle) = Manhattan(tp.puzzle.state, TP_goal_state)
        /\ tp.best_energy = 10
        /\ tp.current_energy = 10

C10_Witness ==
    /\ TP_SeededOnDefault
    /\ tp.best_energy = Manhattan(TP_default_state, TP_goal_state)
    /\ tp.moves_history = <<TP_default_state>>
\* simulated_annealing of tiles.py has returned
TP_Returned == prog = "tiles" /\ tp.pc = "returned"

\* the working puzzle was the goal at some point of the run: every state
\* the working puzzle takes is appended to moves_history
TP_ReachedGoal == \E i \in 1..Len(tp.moves_history) : tp.moves_history[i] = TP_goal_state

\* C11: a tiles annealing run returns a best energy that is no greater than
\* the heuristic of the initial state and equals the heuristic of the
\* returned best puzzle; it is 0, and the best puzzle satisfies is_goal,
\* whenever the working puzzle reached the goal during the run.
C11_ReturnedBest ==
    TP_Returned =>
        /\ tp.best_energy <= TP_calculate_heuristic(tp.puzzle)
        /\ tp.best_energy = TP_calculate_heuristic(tp.best_puzzle)
        /\ TP_ReachedGoal => tp.best_energy = 0 /\ TP_is_goal(tp.best_puzzle)

C11_Witness ==
    /\ TP_Returned
    /\ TP_ReachedGoal
    /\ tp.moves_history[1] # TP_goal_state
    /\ Len(tp.moves_history) >= 3
    /\ tp.best_energy = 0
(***************************************************************************)
(* count_attacks as a function of its argument: the calls on every list    *)
(* of at most MaxQueens queens of the 4x4 board.  The call's frame is held *)
(* in sa.                                                                  *)
(***************************************************************************)
MaxQueens == 3

RECURSIVE CA_lists(_)
CA_lists(k) ==
    IF k = 0 THEN {<<>>}
    ELSE LET shorter == CA_lists(k - 1)
         IN  shorter \cup {Append(state, cell) :
                              state \in {l \in shorter : Len(l) = k - 1},
                              cell \in (0..(SA_default_n - 1)) \X (0..(SA_default_n - 1))}

CA_Init ==
    /\ prog = "count_attacks"
    /\ \E state \in CA_lists(MaxQueens) :
          sa = [pc |-> "call", state |-> state, attacks |-> 0]
    /\ q = Absent /\ nq = Absent /\ tp = Absent /\ ga = Absent

CA_Call ==
    /\ prog = "count_attacks"
    /\ sa.pc = "call"
    /\ sa' = [sa EXCEPT !.pc = "returned", !.attacks = count_attacks(sa.state)]
    /\ UNCHANGED <<prog, q, nq, tp, ga>>

CA_Next == CA_Call

SpecCountAttacks == CA_Init /\ [][CA_Next]_vars

\* the ways to reorder a list of k elements
Bijections ==
    [k \in 0..MaxQueens |->
        {f \in [1..k -> 1..k] : \A i, j \in 1..k : f[i] = f[j] => i = j}]

\* the lists that hold the elements of state in another order
Reorderings(state) ==
    {[i \in 1..Len(state) |-> state[f[i]]] : f \in Bijections[Len(state)]}

\* C12: count_attacks returns the same value for any two configurations
\* that are permutations of one another.
C12_PermutationInvariant ==
    prog = "count_attacks" /\ sa.pc = "returned" =>
        \A other \in Reorderings(sa.state) : count_attacks(other) = sa.attacks

C12_Witness ==
    /\ prog = "count_attacks"
    /\ sa.pc = "returned"
    /\ Len(sa.state) = MaxQueens
    /\ sa.attacks >= 2
    /\ \E other \in Reorderings(sa.state) :
          /\ other # sa.state
          /\ PairAttacks(other[1], other[2]) # PairAttacks(sa.state[1], sa.state[2])

\* the main-thread actions C13 names: previous / next step, mode switch (reset)
Q_ReplayOrReset == Q_ClickPrev \/ Q_ClickNext \/ Q_ClickAuto \/ Q_ClickManual

(***************************************************************************)
(* The annealing runs from their start to their end.  queen_annealing.py:  *)
(* the boards built by the clicks of SA_RunClicks, Solve clicked;          *)
(* the draws of get_random_neighbor are those of SA_RunDraws, and the run  *)
(* is not cut off.  tiles.py: the calls whose budget ends within           *)
(* MaxTileIter iterations.  The main loops keep resuming the generator     *)
(* and the function keeps running: weak fairness.                          *)
(***************************************************************************)
SA_RunDraws == {<<1, 0>>}

\* the clicks that build the boards of the runs
SA_RunClicks ==
    {<<(<<1, 1>>), <<2, 0>>, <<3, 2>>, <<1, 3>>>>,
     <<(<<2, 0>>), <<1, 1>>, <<3, 2>>, <<1, 3>>>>,
     <<(<<2, 0>>), <<3, 2>>, <<1, 3>>, <<1, 1>>>>,
     <<(<<2, 0>>), <<0, 1>>, <<3, 2>>, <<1, 3>>>>}

RECURSIVE SA_after_clicks(_, _)
SA_after_clicks(self, cells) ==
    IF cells = <<>> THEN self
    ELSE SA_after_clicks(SA_handle_click(self, <<"board", Head(cells)[1], Head(cells)[2]>>),
                         Tail(cells))

RECURSIVE TP_cools_within(_, _, _)
TP_cools_within(temperature, parameters, k) ==
    \/ temperature <= parameters.min_temperature
    \/ /\ k > 0
       /\ TP_cools_within(TP_cool(temperature, parameters.cooling_rate), parameters, k - 1)

TP_short_calls ==
    {parameters \in TP_call_parameters :
        \/ parameters.max_iterations <= MaxTileIter
        \/ TP_cools_within(parameters.initial_temperature, parameters, MaxTileIter)}

InitRuns ==
    \/ /\ prog = "queen_annealing"
       /\ \E cells \in SA_RunClicks :
             sa = SA_handle_click(SA_after_clicks(SA_Init, cells), <<"solve">>)
       /\ q = Absent /\ nq = Absent /\ tp = Absent /\ ga = Absent
    \/ /\ prog = "tiles"
       /\ \E initial_state \in TP_initial_states, parameters \in TP_short_calls :
             tp = TP_sa_begin(TP_new_puzzle(initial_state), parameters)
       /\ q = Absent /\ nq = Absent /\ sa = Absent /\ ga = Absent

SA_ResumeIterateRun ==
    /\ SA_Running
    /\ sa.annealing_generator = "yield292"
    /\ \E draw \in SA_RunDraws :
          LET neighbor == SA_get_random_neighbor(sa, sa.current_state, draw[1], draw[2])
          IN  \E chance \in SA_accept_outcomes(count_attacks(neighbor) - sa.best_energy) :
                 sa' = SA_iterate(sa, draw[1], draw[2], chance)
    /\ UNCHANGED <<prog, q, nq, tp, ga>>

NextRuns ==
    \/ SA_ResumeNew
    \/ SA_ResumeLoop
    \/ SA_ResumeIterateRun
    \/ SA_ResumeCool
    \/ TP_Iterate
    \/ TP_Return

SpecRuns == InitRuns /\ [][NextRuns]_vars /\ WF_vars(NextRuns)

\* the loop test of simulated_annealing of queen_annealing.py holds
SA_LoopCondition ==
    /\ sa.current_temperature > SA_min_temperature
    /\ sa.current_iteration < SA_max_iterations
    /\ sa.best_energy > 0

\* the queens annealing run has recorded its final Step
SA_Ended == prog = "queen_annealing" /\ sa.annealing_generator = "yield334"

C16_IterationWithinBudget ==
    /\ prog = "queen_annealing" => sa.current_iteration <= SA_max_iterations
    /\ prog = "tiles" => tp.iteration <= tp.max_iterations

C16_StoppedForAReason ==
    /\ SA_Ended => ~sa.is_solving /\ ~SA_LoopCondition
    /\ TP_Returned => ~TP_loop_condition(tp)

\* the queens annealing run has cooled down once
SA_Cooled ==
    /\ sa'.current_iteration = sa.current_iteration + 1
    /\ sa'.current_temperature < sa.current_temperature

\* an iteration is performed only while the loop test holds; it counts one
\* iteration and lowers the temperature (queens: at once, or after the
\* yield that follows the record of a new best state)
C16_IterationGuarded ==
    /\ SA_ResumeIterateRun =>
          /\ SA_LoopCondition
          /\ \/ SA_Cooled
             \/ /\ sa'.annealing_generator = "yield311"
                /\ sa'.current_iteration = sa.current_iteration
    /\ SA_ResumeCool => SA_Cooled
    /\ TP_Iterate =>
          /\ TP_loop_condition(tp)
          /\ tp'.iteration = tp.iteration + 1
          /\ tp'.temperature < tp.temperature

\* C16: every annealing run (queens and tiles) terminates: it performs an
\* iteration only while best-ever metric > 0 (tiles: working puzzle not the
\* goal), temperature > Tmin and iteration < Imax all hold, so it stops
\* after at most Imax iterations, and at termination at least one of the
\* three stop conditions holds.
C16_RunsTerminate ==
    /\ [](C16_IterationWithinBudget /\ C16_StoppedForAReason)
    /\ [][C16_IterationGuarded]_vars
    /\ (prog = "queen_annealing" /\ sa.is_solving) ~> SA_Ended
    /\ (prog = "tiles" /\ tp.pc = "loop") ~> TP_Returned

C16_Witness ==
    /\ SA_Ended
    /\ sa.best_energy > 0
    /\ sa.current_temperature <= SA_min_temperature
    /\ sa.current_iteration > 100
    /\ sa.current_iteration < SA_max_iterations

\* C13, as stated: while a backtracking solve runs on its worker thread,
\* the main-thread actions that can interleave with it (previous / next
\* step, mode switch / reset) never replace or modify the configuration
\* the worker is searching on, nor the step buffer.
C13_SingleWriter ==
    [][prog = "queens" /\ Q_WorkerRunning(q) /\ Q_ReplayOrReset
          => q'.solution = q.solution /\ q'.steps = q.steps]_vars

\* C14, as stated: a solve request issued while a solve is in progress
\* never results in two solver activations working on the same
\* configuration and step buffer at the same time.
C14_OneSolverAtATime == prog = "queens" => Q_ThreadsAlive <= 1
\* a click on the board has been declined: nothing of the replay state changed
Q_Declined == q'.solution = q.solution /\ q'.steps = q.steps /\ q'.current_step = q.current_step

SA_Declined ==
    /\ sa'.current_state = sa.current_state
    /\ sa'.steps = sa.steps
    /\ sa'.current_step = sa.current_step

\* queen is a cell of the n x n board whose column no queen of state uses
FreeCell(queen, state, n) ==
    /\ queen[1] \in 0..(n - 1)
    /\ queen[2] \in 0..(n - 1)
    /\ \A i \in 1..Len(state) : state[i][2] # queen[2]

\* C15, as stated: a manual placement attempt on an already-used column or
\* on an out-of-range cell is declined: the configuration, the step buffer
\* and the cursor are unchanged.  So a board click that is not declined has
\* appended a queen on a cell of the board whose column was free.
C15_PlacementDeclined ==
    [][/\ Q_ClickBoard =>
             \/ Q_Declined
             \/ /\ q'.solution = Append(q.solution, Last(q'.solution))
                /\ FreeCell(Last(q'.solution), q.solution, q.n)
       /\ SA_ClickBoard =>
             \/ SA_Declined
             \/ /\ sa'.current_state = Append(sa.current_state, Last(sa'.current_state))
                /\ FreeCell(Last(sa'.current_state), sa.current_state, sa.n)]_vars

\* every Step of old is in new, at its place and as it was
StepsKept(old, new) == Len(new) >= Len(old) /\ SubSeq(new, 1, Len(old)) = old

\* C17: a recorded Step is never mutated after it is appended: no later
\* operation (record, previous, next, manual placement, a solver iteration,
\* accepting a neighbor) changes the snapshot, metric or description of an
\* existing Step.  A step of the program leaves every recorded Step as it
\* was, unless it discards the buffer (a reset, or the start of a run).
C17_StepsImmutable ==
    [][\/ Buffer' = <<>>
       \/ SA_ResumeNew
       \/ StepsKept(Buffer, Buffer')]_vars

C17_Witness ==
    /\ prog = "queens"
    /\ q.mode = "manual"
    /\ Len(q.steps) = 3
    /\ q.sound = "move"
    /\ q.steps[3][3] # Append(q.steps[2][3], q.steps[3][2])

\* the generator of the queens annealing run is suspended at one of its
\* yields and the replay cursor is where the run left it
SA_Suspended ==
    /\ prog = "queen_annealing"
    /\ sa.annealing_generator \in {"yield279", "yield292", "yield311", "yield321", "yield334"}
    /\ sa.steps # <<>>
    /\ sa.current_step = Len(sa.steps) - 1

\* C18, as stated: at every suspension point of the queens annealing solver
\* (every yield, the final one included) the configuration stored in the
\* most recently recorded Step equals the live working configuration.
C18_StepCapturesLive == SA_Suspended => Last(sa.steps).state = sa.current_state

TP_Positions == (0..2) \X (0..2)

\* the slides that keep a blank at pos inside the grid
TP_Slides(pos) ==
    {d \in {<<-1, 0>>, <<1, 0>>, <<0, -1>>, <<0, 1>>} :
        <<pos[1] + d[1], pos[2] + d[2]>> \in TP_Positions}

\* how many slides a position has: 2 at a corner, 3 on an edge, 4 in the centre
TP_SlideCount(pos) ==
    IF pos = <<1, 1>> THEN 4
    ELSE IF pos[1] # 1 /\ pos[2] # 1 THEN 2
    ELSE 3

\* grid holds the tiles 1..8 and one blank, each once
TP_IsPermutation(grid) == {TP_cell(grid, p[1], p[2]) : p \in TP_Positions} = 0..8

\* the puzzle whose grid is that of puzzle with the blank moved to pos
\* (the tile at pos and the blank change places)
TP_WithBlankAt(puzzle, pos) ==
    TP_new_puzzle([r \in 1..3 |-> [c \in 1..3 |->
        IF <<r - 1, c - 1>> = pos THEN 0
        ELSE IF <<r - 1, c - 1>> = puzzle.blank_pos THEN TP_cell(puzzle.state, pos[1], pos[2])
        ELSE puzzle.state[r][c]]])

\* the moves of one puzzle are the slides of its blank, and each of them
\* yields a permutation with blank_pos at the blank
TP_MovesRight(puzzle) ==
    LET moves == TP_get_possible_moves(puzzle)
    IN  /\ {moves[k] : k \in 1..Len(moves)} = TP_Slides(puzzle.blank_pos)
        /\ Len(moves) = TP_SlideCount(puzzle.blank_pos)
        /\ \A k \in 1..Len(moves) :
              LET neighbor == TP_get_random_neighbor(puzzle, k)
                  target == <<puzzle.blank_pos[1] + moves[k][1],
                              puzzle.blank_pos[2] + moves[k][2]>>
              IN  /\ TP_IsPermutation(neighbor.state)
                  /\ neighbor.blank_pos = target
                  /\ TP_cell(neighbor.state, target[1], target[2]) = 0
                  /\ TP_cell(neighbor.state, puzzle.blank_pos[1], puzzle.blank_pos[2])
                        = TP_cell(puzzle.state, target[1], target[2])
                  /\ \A p \in TP_Positions \ {target, puzzle.blank_pos} :
                        TP_cell(neighbor.state, p[1], p[2]) = TP_cell(puzzle.state, p[1], p[2])

\* C19: for every blank position in the 3x3 grid the possible moves are
\* exactly the up/down/left/right slides that keep the blank inside the
\* grid (2 at a corner, 3 on an edge, 4 in the centre), and applying any
\* of them yields a permutation of the tiles 1..8 plus one blank with
\* blank_pos pointing at the blank.  Stated of the working puzzle of every
\* reachable state of a run and of that grid with its blank at each of the
\* nine positions.
C19_MovesAreSlides ==
    prog = "tiles" /\ tp.pc \in {"loop", "returned"} =>
        /\ TP_MovesRight(tp.current_puzzle)
        /\ \A pos \in TP_Positions : TP_MovesRight(TP_WithBlankAt(tp.current_puzzle, pos))

C19_Witness ==
    /\ prog = "tiles"
    /\ tp.pc = "loop"
    /\ tp.iteration >= 2
    /\ tp.current_puzzle.blank_pos = <<1, 1>>
    /\ Len(TP_get_possible_moves(tp.current_puzzle)) = 4
    /\ Len(tp.moves_history) = 3

(***************************************************************************)
(* The genetic algorithm solver.  Its code is not among the source files;  *)
(* it is modelled from section 4.4 of the specification.  An individual    *)
(* is the sequence of the rows of the queens of the columns 0..n-1; the    *)
(* run's object is ga.  One action is one generation.                      *)
(***************************************************************************)
\* board size of the runs
GA_n == 3

GA_Individuals == [1..GA_n -> 0..(GA_n - 1)]

\* the configuration of an individual: one queen <<row, col>> per column
GA_config(individual) == [c \in 1..GA_n |-> <<individual[c], c - 1>>]

GA_metric(individual) == count_attacks(GA_config(individual))

\* Fitness(state) = -metric(state)
GA_fitness(individual) == 0 - GA_metric(individual)

\* the runs: population size P, elite count E with E < P (and at least
\* one elite), generation cap G, and the initial population
GA_runs ==
    {[populationSize |-> 3, eliteSize |-> E, generations |-> 2, population |-> population] :
        E \in 1..2,
        population \in {<<(<<0, 0, 0>>), <<0, 1, 2>>, <<1, 1, 0>>>>,
                        <<(<<0, 2, 0>>), <<2, 2, 1>>, <<0, 1, 1>>>>}}

\* the positions of the individuals with the greatest fitness among those
\* at the positions of S
GA_fittest(population, S) ==
    {i \in S : \A j \in S : GA_fitness(population[i]) >= GA_fitness(population[j])}

\* an elite that is any E positions of the population
GA_elites_any(population, E) ==
    {S \in SUBSET (1..Len(population)) : Cardinality(S) = E}

\* the choices of the top E positions (ties are broken in any way)
GA_elites(population, E) ==
    {S \in SUBSET (1..Len(population)) :
        /\ Cardinality(S) = E
        /\ \A i \in S, j \in (1..Len(population)) \ S :
              GA_fitness(population[i]) >= GA_fitness(population[j])}

\* the winners a tournament can have: 3 positions sampled without
\* replacement, the fittest kept
GA_tournament(population) ==
    UNION {GA_fittest(population, S) :
             S \in {T \in SUBSET (1..Len(population)) : Cardinality(T) = 3}}

\* single-point crossover at the column index point
GA_crossover(mother, father, point) ==
    [c \in 1..GA_n |-> IF c - 1 < point THEN mother[c] ELSE father[c]]

\* the children a generation can produce: two tournament winners, a
\* crossover point, and with probability m one column's row reassigned
GA_children(population) ==
    LET winners == GA_tournament(population)
        crossed == {GA_crossover(population[i], population[j], point) :
                       i \in winners, j \in winners, point \in 0..(GA_n - 1)}
        mutated == {[child EXCEPT ![c] = row] :
                       child \in crossed, c \in 1..GA_n, row \in 0..(GA_n - 1)}
    IN  crossed \cup mutated

GA_record_step(self, individual, description) ==
    LET appended == Append(self.steps, [state |-> GA_config(individual),
                                        energy |-> GA_metric(individual),
                                        description |-> description])
    IN  [self EXCEPT !.steps = appended, !.current_step = Len(appended) - 1]

\* the positions of an ordered selection of the positions of S
GA_ordered(S) ==
    {order \in [1..Cardinality(S) -> S] :
        \A a, b \in 1..Cardinality(S) : a < b => order[a] < order[b]}

\* one generation: steps 1 to 4 of section 4.4
GA_generation(self, elite, children) ==
    LET best == CHOOSE i \in GA_fittest(self.population, 1..Len(self.population)) : TRUE
        order == CHOOSE order \in GA_ordered(elite) : TRUE
    IN  IF GA_fitness(self.population[best]) = 0
        THEN [GA_record_step(self, self.population[best], <<"Solution Found!">>)
                EXCEPT !.pc = "done"]
        ELSE [GA_record_step(self, self.population[best], <<"Generation", self.generation>>)
                EXCEPT !.population = [k \in 1..Len(order) |-> self.population[order[k]]]
                                      \o children,
                       !.generation = @ + 1]

\* after G generations the best individual found is reported
GA_report(self) ==
    LET best == CHOOSE i \in GA_fittest(self.population, 1..Len(self.population)) : TRUE
    IN  [GA_record_step(self, self.population[best], <<"Best Found", self.generation>>)
           EXCEPT !.pc = "done"]

GA_start(run) ==
    [pc |-> "run", population |-> run.population, populationSize |-> run.populationSize,
     eliteSize |-> run.eliteSize, generations |-> run.generations,
     generation |-> 0, steps |-> <<>>, current_step |-> 0]

GA_Init ==
    /\ prog = "genetic"
    /\ \E run \in GA_runs : ga = GA_start(run)
    /\ q = Absent /\ nq = Absent /\ sa = Absent /\ tp = Absent

GA_Generation ==
    /\ prog = "genetic"
    /\ ga.pc = "run"
    /\ ga.generation < ga.generations
    /\ \E elite \in GA_elites(ga.population, ga.eliteSize) :
          \E children \in [1..(ga.populationSize - ga.eliteSize) -> GA_children(ga.population)] :
             ga' = GA_generation(ga, elite, children)
    /\ UNCHANGED <<prog, q, nq, sa, tp>>

GA_Report ==
    /\ prog = "genetic"
    /\ ga.pc = "run"
    /\ ga.generation = ga.generations
    /\ ga' = GA_report(ga)
    /\ UNCHANGED <<prog, q, nq, sa, tp>>

GA_Next == GA_Generation \/ GA_Report

SpecGenetic == GA_Init /\ [][GA_Next]_vars

\* the Steps the generations of the run have recorded
GA_GenerationSteps ==
    IF prog = "genetic" THEN ga.steps ELSE <<>>

Q_SnapshotBefore(steps, i) == IF i = 1 THEN <<>> ELSE steps[i - 1][3]

\* every Step adds its queen on top of the snapshot before it, or removes
\* the queen on top of it: the most recent Place that still stands
Q_StackOrder(steps) ==
    \A i \in 1..Len(steps) :
        LET before == Q_SnapshotBefore(steps, i)
        IN  \/ /\ steps[i][1] = "Place"
               /\ steps[i][3] = Append(before, steps[i][2])
            \/ /\ steps[i][1] = "Remove"
               /\ before # <<>>
               /\ steps[i][2] = Last(before)
               /\ steps[i][3] = Front(before)

\* some zero-conflict placement of n queens has the queens of snapshot on
\* its first lines
Extensible(n, snapshot) ==
    \E s \in Solutions[n] :
        /\ Len(snapshot) <= n
        /\ \A k \in 1..Len(snapshot) : snapshot[k] = <<k - 1, s[k]>>

\* steps[j] is the Remove of the queen steps[i] placed
Q_Undoes(steps, i, j) ==
    /\ i < j
    /\ steps[i][1] = "Place"
    /\ steps[j][1] = "Remove"
    /\ steps[j][2] = steps[i][2]
    /\ steps[j][3] = Front(steps[i][3])

\* the Steps of the buffer are those of a search of the worker: in auto
\* mode nothing else records
Q_SearchSteps == IF prog = "queens" /\ q.mode = "auto" THEN q.steps ELSE <<>>

\* a Remove is recorded only below a placement no solution goes through,
\* and once the search has returned every such placement has its Remove
C21_RemoveWhenFailed ==
    /\ \A j \in 1..Len(Q_SearchSteps) :
          Q_SearchSteps[j][1] = "Remove" =>
              /\ ~Extensible(q.n, Q_SnapshotBefore(Q_SearchSteps, j))
              /\ \E i \in 1..(j - 1) : Q_Undoes(Q_SearchSteps, i, j)
    /\ Q_SearchSteps # <<>> /\ q.worker.pc = "done" =>
          \A i \in 1..Len(Q_SearchSteps) :
              Q_SearchSteps[i][1] = "Place" =>
                  (~Extensible(q.n, Q_SearchSteps[i][3])
                      <=> \E j \in 1..Len(Q_SearchSteps) : Q_Undoes(Q_SearchSteps, i, j))

\* a search that returns failure leaves the configuration empty
C21_FailureLeavesEmpty ==
    /\ Q_WorkerEnds /\ ~q'.worker.ret =>
          /\ q'.solution = <<>>
          /\ q'.steps # <<>> => Last(q'.steps)[1] = "Remove" /\ Last(q'.steps)[3] = <<>>
    /\ NQ_KeySpace /\ ~nq'.solved => nq'.solution = <<>> /\ nq'.top_row = 0

\* C21: a Remove Step for a cell is recorded exactly when the recursive
\* search below that placement has failed; it always undoes the most recent
\* Place that still stands (stack order); consecutive Step snapshots differ
\* by exactly one queen added or removed; and when the whole search returns
\* failure the configuration is empty again.
C21_PlaceRemoveDiscipline ==
    /\ [](Q_StackOrder(Q_SearchSteps) /\ C21_RemoveWhenFailed)
    /\ [][C21_FailureLeavesEmpty]_vars

C21_Witness ==
    /\ prog = "queens"
    /\ q.n = 3
    /\ q.worker.pc = "done" /\ ~q.worker.ret
    /\ q.solution = <<>>
    /\ Len(q.steps) >= 6
    /\ Last(q.steps)[1] = "Remove"
    /\ \E i \in 1..Len(q.steps) : Len(q.steps[i][3]) = 2

\* C22, as stated: in every Step recorded during a queens annealing run the
\* recorded metric value equals count_attacks of the configuration snapshot
\* stored in that same Step.
C22_MetricOfSnapshot ==
    \A i \in 1..Len(SA_StepsOfRun) :
        SA_StepsOfRun[i].energy = count_attacks(SA_StepsOfRun[i].state)

\* the generator of the queens annealing run is suspended at a yield
SA_AtYield ==
    /\ prog = "queen_annealing"
    /\ sa.annealing_generator \in {"yield279", "yield292", "yield311", "yield321", "yield334"}

C23_BestIsConsistent == SA_AtYield => sa.best_energy = count_attacks(sa.best_state)

\* state differs from the configuration before in one queen of the list
SA_IsNeighbor(state, before) ==
    /\ Len(state) = Len(before)
    /\ Cardinality({i \in 1..Len(state) : state[i] # before[i]}) <= 1

\* from one suspension point to the next the best state and energy change
\* only to a neighbor the run has accepted whose metric is strictly lower,
\* and the activation that changes them suspends right after recording the
\* Step of the new best (the start of a run sets them up first)
C23_BestChange ==
    prog = "queen_annealing"
    /\ (sa'.best_state # sa.best_state \/ sa'.best_energy # sa.best_energy)
    /\ ~SA_ResumeNew
    => /\ sa.annealing_generator = "yield292"
       /\ SA_IsNeighbor(sa'.best_state, sa.current_state)
       /\ sa'.current_state = sa'.best_state
       /\ sa'.best_energy = count_attacks(sa'.best_state)
       /\ sa'.best_energy < sa.best_energy
       /\ sa'.annealing_generator = "yield311"
       /\ Len(sa'.steps) = Len(sa.steps) + 1
       /\ Last(sa'.steps).state = sa'.best_state
       /\ Last(sa'.steps).energy = sa'.best_energy
       /\ sa'.current_step = Len(sa'.steps) - 1

\* C23: at every suspension point of a queens annealing run best_energy
\* equals count_attacks(best_state); best_state and best_energy change only
\* when an accepted neighbor has a strictly lower metric than best_energy,
\* and each such change is immediately followed by recording a Step that
\* holds the new best state and energy.
C23_BestTracking ==
    /\ []C23_BestIsConsistent
    /\ [][C23_BestChange]_vars

C23_Witness ==
    /\ SA_AtYield
    /\ sa.annealing_generator = "yield311"
    /\ Len(sa.steps) = 3
    /\ sa.best_energy < sa.steps[1].energy
    /\ sa.best_state # sa.steps[1].state
    /\ Last(sa.steps).description = <<"New Best State Found!", sa.best_energy>>

\* Solve has signalled victory on the manual configuration on the board
Q_ManualVictory ==
    /\ prog = "queens"
    /\ q.mode = "manual"
    /\ q.sound = "win"
    /\ q.solution # <<>>

\* C24, as stated: in manual mode of the backtracking GUI pressing Solve
\* signals victory only when the n queens the user has placed are pairwise
\* non-attacking (no two share a row, column or diagonal); every
\* configuration that accepted manual placements can build has conflict
\* count 0.
C24_ManualVictorySound ==
    /\ prog = "queens" /\ q.mode = "manual" => count_attacks(q.solution) = 0
    /\ Q_ManualVictory => Len(q.solution) = q.n /\ NonAttacking(q.solution)

\* an activation of the generator of the queens annealing run: run() has
\* called next() on it and it has run to its next yield
SA_Activation == SA_ResumeNew \/ SA_ResumeLoop \/ SA_ResumeIterateRun \/ SA_ResumeCool

\* the activation has appended one Step (the first activation of a run to
\* the buffer it has emptied)
C25_OneStepPerActivation ==
    SA_Activation =>
        /\ sa'.annealing_generator \in {"yield279", "yield292", "yield311", "yield321", "yield334"}
        /\ sa'.steps # <<>>
        /\ sa'.steps = Append(IF SA_ResumeNew THEN <<>> ELSE sa.steps, Last(sa'.steps))
        /\ SA_ResumeNew =>
              sa'.steps[1] = [state |-> sa.current_state,
                              energy |-> count_attacks(sa.current_state),
                              description |-> <<"Initial State">>]

\* the first Step of the run that has ended is the one of its start, the
\* last Step holds best_state with best_energy
C25_FirstAndLast ==
    /\ SA_AtYield /\ sa.is_solving =>
          /\ sa.steps[1].description = <<"Initial State">>
          /\ sa.steps[1].energy = count_attacks(sa.steps[1].state)
    /\ SA_Ended /\ sa.steps # <<>> =>
          /\ sa.steps[1].description = <<"Initial State">>
          /\ sa.steps[1].energy = count_attacks(sa.steps[1].state)
          /\ Last(sa.steps).state = sa.best_state
          /\ Last(sa.steps).energy = sa.best_energy

\* C25: each activation (resume) of the queens annealing generator that
\* ends in a suspension appends exactly one Step to the buffer before it
\* suspends; the first Step of a run holds the initial configuration with
\* its conflict count, and the last Step holds best_state with best_energy.
C25_StepPerActivation ==
    /\ []C25_FirstAndLast
    /\ [][C25_OneStepPerActivation]_vars

C25_Witness ==
    /\ SA_Ended
    /\ Len(sa.steps) > 100
    /\ \E i \in 1..Len(sa.steps) : sa.steps[i].description[1] = "Cooling Down"
    /\ sa.steps[1].description = <<"Initial State">>
    /\ Last(sa.steps).description = <<"Best State Found", sa.best_energy>>
    /\ Last(sa.steps).state # sa.current_state

\* the positions at which two grids differ
TP_Differ(a, b) == {p \in TP_Positions : TP_cell(a, p[1], p[2]) # TP_cell(b, p[1], p[2])}

\* after is before with its blank and one orthogonally adjacent tile swapped
TP_OneSlide(before, after) ==
    \E p, t \in TP_Positions :
        /\ Abs(p[1] - t[1]) + Abs(p[2] - t[2]) = 1
        /\ TP_cell(before, p[1], p[2]) = 0
        /\ TP_cell(after, t[1], t[2]) = 0
        /\ TP_cell(after, p[1], p[2]) = TP_cell(before, t[1], t[2])
        /\ TP_Differ(before, after) = {p, t}

TP_InRun == prog = "tiles" /\ tp.pc \in {"loop", "returned"}

C26_HistoryShape ==
    TP_InRun =>
        /\ tp.moves_history[1] = tp.puzzle.state
        /\ Last(tp.moves_history) = tp.current_puzzle.state
        /\ Len(tp.moves_history) - 1 <= tp.iteration
        /\ \A i \in 2..Len(tp.moves_history) :
              TP_OneSlide(tp.moves_history[i - 1], tp.moves_history[i])

\* a pass of the loop appends the accepted neighbor's grid, or nothing when
\* it accepts none; the caller's puzzle stays as it was
C26_HistoryGrowth ==
    /\ TP_Iterate =>
          /\ tp'.puzzle = tp.puzzle
          /\ IF tp'.current_puzzle # tp.current_puzzle
             THEN tp'.moves_history = Append(tp.moves_history, tp'.current_puzzle.state)
             ELSE tp'.moves_history = tp.moves_history
    /\ TP_Return => tp'.puzzle = tp.puzzle /\ tp'.moves_history = tp.moves_history
    /\ TP_Call => tp'.puzzle = tp.puzzle /\ tp'.moves_history = <<tp.puzzle.state>>

\* C26: the tiles annealing moves_history starts with the initial grid,
\* gains one entry exactly on each accepted neighbor (so its length minus
\* one never exceeds the iteration count), and every entry differs from its
\* predecessor by exactly one swap of the blank with an orthogonally
\* adjacent tile; the caller's puzzle object is left unchanged by the run.
C26_MovesHistory ==
    /\ []C26_HistoryShape
    /\ [][C26_HistoryGrowth]_vars

C26_Witness ==
    /\ TP_Returned
    /\ tp.iteration = 3
    /\ Len(tp.moves_history) = 3
    /\ tp.puzzle.state = tp.moves_history[1]
    /\ tp.puzzle.state # tp.current_puzzle.state
    /\ tp.puzzle.blank_pos # tp.current_puzzle.blank_pos

\* what a click can be on: a size button, a control button, a cell of the
\* board or a cell beside it
SA_Targets ==
    {<<"size", size>> : size \in SA_available_sizes}
    \cup {<<"solve">>, <<"reset">>, <<"prev">>, <<"next">>}
    \cup {<<"board", cell[1], cell[2]>> : cell \in SA_ClickCells \cup {<<0, 8>>, <<8, 0>>}}

\* the fields a user action must leave alone while a solve is in progress
SA_Guarded(self) ==
    <<self.n, self.current_state, self.steps, self.current_step,
      self.annealing_generator, self.is_solving>>

C27_ClicksIgnoredWhileSolving ==
    prog = "queen_annealing" /\ sa.is_solving =>
        /\ \A target \in SA_Targets :
              SA_Guarded(SA_handle_click(sa, target)) = SA_Guarded(sa)
        /\ \A size \in SA_available_sizes :
              SA_Guarded(SA_change_board_size(sa, size)) = SA_Guarded(sa)
        /\ Len(sa.current_state) = sa.n

\* a user action starts a solve only on a board of exactly n queens, and
\* only the solve button does
C27_SolveNeedsFullBoard ==
    prog = "queen_annealing" /\ ~sa.is_solving =>
        \A target \in SA_Targets :
            LET clicked == SA_handle_click(sa, target)
            IN  (clicked.is_solving \/ clicked.annealing_generator # sa.annealing_generator) =>
                    /\ target = <<"solve">>
                    /\ Len(sa.current_state) = sa.n
                    /\ clicked.annealing_generator = "new"
                    /\ clicked.is_solving

\* C27: while a queens annealing solve is in progress (is_solving true)
\* every user action routed through handle_click or change_board_size
\* (place queen, reset, previous, next, solve, size change) leaves n,
\* current_state, steps, current_step and the running generator unchanged;
\* a solve can only be started when exactly n queens are placed.
C27_FrozenWhileSolving == C27_ClicksIgnoredWhileSolving /\ C27_SolveNeedsFullBoard

C27_Witness ==
    /\ prog = "queen_annealing"
    /\ sa.is_solving
    /\ sa.annealing_generator = "yield292"
    /\ sa.current_step > 0
    /\ Len(sa.steps) >= 3
    /\ sa.current_state # sa.steps[sa.current_step].state

====
